---- MODULE Spec2Model ----
(***************************************************************************)
(* The filesystem protocol server of src/src/index.ts (class MyContainer,  *)
(* lines 119-274, and the /container/:id route, lines 292-310): the        *)
(* in-memory file table of each Durable Object instance, its durable       *)
(* storage, the process-wide connection registry, and the session loop     *)
(* that decodes length-prefixed request frames from a byte stream.         *)
(***************************************************************************)
EXTENDS Integers, Sequences, FiniteSets, TLC

(***************************************************************************)
(* Bounds of the model.                                                    *)
(***************************************************************************)
\* longest data array of one write request
MaxData == 2
\* largest offset of a read or write request
MaxOffset == 2
\* largest size of a read request
MaxSize == 2
\* connections the router opens in one run
MaxConns == 2
\* request frames a client sends on one connection (SpecSession)
MaxFrames == 2
\* request frames the clients send in one run of the whole system (Spec)
MaxSystemFrames == 1

(***************************************************************************)
(* Values.                                                                 *)
(***************************************************************************)
\* the filesystem identities (names given to /container/:id)
Ids == {"x", "y"}

\* file paths, as sequences of characters
PathA == <<"/", "a">>
PathB == <<"/", "b">>
Paths == {PathA, PathB}

\* an optional numeric field (offset, size) that the request does not carry
Absent == 0 - 1

\* byte values: the server copies bytes without looking at them and fills
\* gaps with zero, so a zero and a non-zero value stand for all of them
Bytes == {0, 1}

RECURSIVE SeqsUpTo(_, _)
SeqsUpTo(S, n) ==
    IF n = 0 THEN {<<>>}
    ELSE LET shorter == SeqsUpTo(S, n - 1)
         IN  shorter \cup {Append(s, b) : s \in {t \in shorter : Len(t) = n - 1}, b \in S}

\* request ids: the server only copies the id of a request into its
\* response, so two distinct values stand for all of them
RequestIds == {1, 2}

Max(a, b) == IF a >= b THEN a ELSE b
Min(a, b) == IF a <= b THEN a ELSE b

(***************************************************************************)
(* Uint8Array and Map primitives used by the server.                       *)
(***************************************************************************)
\* new Uint8Array(n): n zero bytes
Zeros(n) == [k \in 1..n |-> 0]

\* TypedArray.prototype.slice(start, end): negative indices count from the
\* end, both are clamped to the array, an empty range gives an empty array
Slice(a, start, end) ==
    LET rel(x) == IF x < 0 THEN Max(Len(a) + x, 0) ELSE Min(x, Len(a))
        from   == rel(start)
        to     == rel(end)
    IN  IF to <= from THEN <<>> ELSE SubSeq(a, from + 1, to)

\* TypedArray.prototype.set(source, offset) on a target that is long enough
TypedArraySet(target, source, offset) ==
    [k \in 1..Len(target) |->
        IF k > offset /\ k <= offset + Len(source) THEN source[k - offset]
        ELSE target[k]]

\* Map.prototype.has / get / set / delete; a Map is a function on its keys
MapHas(m, key) == key \in DOMAIN m
MapSet(m, key, value) ==
    [q \in (DOMAIN m) \cup {key} |-> IF q = key THEN value ELSE m[q]]
MapDelete(m, key) == [q \in (DOMAIN m) \ {key} |-> m[q]]
EmptyMap == [q \in {} |-> <<>>]

(***************************************************************************)
(* Requests and responses (FSMessage, FSResponse).                         *)
(***************************************************************************)
FSMessage(id, operation, path, data, offset, size) ==
    [id |-> id, operation |-> operation, path |-> path,
     data |-> data, offset |-> offset, size |-> size]

\* a response carries the request id and one result field; the fields a
\* response does not carry hold a fixed default
FSResponse(id, kind) ==
    [id |-> id, kind |-> kind, data |-> <<>>, bytesWritten |-> 0,
     size |-> 0, files |-> <<>>, success |-> FALSE, error |-> ""]

\* a path member that the request object does not carry: the key under which
\* Map.set(undefined, ...) stores, and the "undefined" of `fs:${path}`
Undefined == <<"undefined">>

NoMessage == FSMessage(0, "none", <<>>, <<>>, Absent, Absent)
NoResponse == FSResponse(0, "none")

(***************************************************************************)
(* performFileSystemOperation, one operator per case of the switch.        *)
(***************************************************************************)
\* offset || 0
OffsetOrZero(offset) == IF offset = Absent THEN 0 ELSE offset

\* size || fileData.length
SizeOrLength(size, length) == IF size = Absent \/ size = 0 THEN length ELSE size

\* ReadResponse with the entry tested for emptiness instead of presence
ReadResponseEmptyIsMissing(table, m) ==
    IF ~MapHas(table, m.path) \/ table[m.path] = <<>>
    THEN [FSResponse(m.id, "error") EXCEPT !.error = "File not found"]
    ELSE LET fileData == table[m.path]
             start    == OffsetOrZero(m.offset)
         IN  [FSResponse(m.id, "data") EXCEPT
                 !.data = Slice(fileData, start,
                                start + SizeOrLength(m.size, Len(fileData)))]

ReadResponse(table, m) ==
    IF ~MapHas(table, m.path)
    THEN [FSResponse(m.id, "error") EXCEPT !.error = "File not found"]
    ELSE LET fileData == table[m.path]
             start    == OffsetOrZero(m.offset)
         IN  [FSResponse(m.id, "data") EXCEPT
                 !.data = Slice(fileData, start,
                                start + SizeOrLength(m.size, Len(fileData)))]

\* WriteEntry with the new array sized by the write alone
WriteEntryNoMax(table, m) ==
    IF m.offset # Absent /\ m.offset # 0
    THEN LET existing == IF MapHas(table, m.path) THEN table[m.path] ELSE <<>>
             newData  == Zeros(m.offset + Len(m.data))
         IN  TypedArraySet(TypedArraySet(newData, existing, 0), m.data, m.offset)
    ELSE m.data

\* the entry a write leaves in the table
WriteEntry(table, m) ==
    IF m.offset # Absent /\ m.offset # 0
    THEN LET existing == IF MapHas(table, m.path) THEN table[m.path] ELSE <<>>
             newData  == Zeros(Max(Len(existing), m.offset + Len(m.data)))
         IN  TypedArraySet(TypedArraySet(newData, existing, 0), m.data, m.offset)
    ELSE m.data

\* the value a write hands to ctx.storage.put
WritePutValue(table, m) == m.data

WriteResponse(m) ==
    [FSResponse(m.id, "bytesWritten") EXCEPT !.bytesWritten = Len(m.data)]

\* StatResponse with a missing entry reported as an empty file
StatResponseMissingIsEmpty(table, m) ==
    [FSResponse(m.id, "stat") EXCEPT
        !.size = IF MapHas(table, m.path) THEN Len(table[m.path]) ELSE 0]

StatResponse(table, m) ==
    IF ~MapHas(table, m.path)
    THEN [FSResponse(m.id, "error") EXCEPT !.error = "File not found"]
    ELSE [FSResponse(m.id, "stat") EXCEPT !.size = Len(table[m.path])]

\* key.startsWith(prefix)
StartsWith(key, prefix) ==
    Len(key) >= Len(prefix) /\ SubSeq(key, 1, Len(prefix)) = prefix

\* s.split("/")[0]: the characters before the first "/"
RECURSIVE FirstSegment(_)
FirstSegment(s) ==
    IF s = <<>> \/ Head(s) = "/" THEN <<>>
    ELSE <<Head(s)>> \o FirstSegment(Tail(s))

\* Array.from(map.keys()): the keys as a list.  A Map lists its keys in
\* insertion order, which the table here does not record; the list is in
\* one fixed order, and nothing below depends on which
RECURSIVE KeyList(_)
KeyList(keys) ==
    IF keys = {} THEN <<>>
    ELSE LET key == CHOOSE k \in keys : TRUE IN <<key>> \o KeyList(keys \ {key})

\* arr.indexOf(name) === index: the element is the first of its value
FirstOccurrence(arr, index) == \A j \in 1..(index - 1) : arr[j] # arr[index]

\* filter((name, index, arr) => arr.indexOf(name) === index && name)
RECURSIVE UniqueNonEmpty(_, _)
UniqueNonEmpty(arr, index) ==
    IF index > Len(arr) THEN <<>>
    ELSE (IF FirstOccurrence(arr, index) /\ arr[index] # <<>>
          THEN <<arr[index]>> ELSE <<>>) \o UniqueNonEmpty(arr, index + 1)

\* ReaddirResponse without the indexOf test of the last filter
ReaddirResponseNoDedup(table, m) ==
    LET prefix == IF m.path = <<"/">> THEN <<>> ELSE m.path
        keys   == SelectSeq(KeyList(DOMAIN table), LAMBDA key : StartsWith(key, prefix))
        names  == [k \in 1..Len(keys) |->
                      FirstSegment(Slice(keys[k], Len(m.path), Len(keys[k])))]
    IN  [FSResponse(m.id, "files") EXCEPT
            !.files = SelectSeq(names, LAMBDA name : name # <<>>)]

ReaddirResponse(table, m) ==
    LET prefix == IF m.path = <<"/">> THEN <<>> ELSE m.path
        keys   == SelectSeq(KeyList(DOMAIN table), LAMBDA key : StartsWith(key, prefix))
        names  == [k \in 1..Len(keys) |->
                      FirstSegment(Slice(keys[k], Len(m.path), Len(keys[k])))]
    IN  [FSResponse(m.id, "files") EXCEPT !.files = UniqueNonEmpty(names, 1)]

\* UnlinkResponse with the presence test made after the delete
UnlinkResponseAfterDelete(table, m) ==
    [FSResponse(m.id, "success") EXCEPT
        !.success = MapHas(MapDelete(table, m.path), m.path)]

UnlinkResponse(table, m) ==
    [FSResponse(m.id, "success") EXCEPT !.success = MapHas(table, m.path)]

\* UnknownResponse without the request id
UnknownResponseNoId(m) ==
    [FSResponse(0, "error") EXCEPT !.error = "Unknown operation"]

UnknownResponse(m) ==
    [FSResponse(m.id, "error") EXCEPT !.error = "Unknown operation"]

\* TableAfter with a read that leaves an empty entry for a path it did not find
TableAfterReadCreates(table, m) ==
    CASE m.operation = "write"  -> MapSet(table, m.path, WriteEntry(table, m))
      [] m.operation = "unlink" -> MapDelete(table, m.path)
      [] m.operation = "read" /\ ~MapHas(table, m.path) -> MapSet(table, m.path, <<>>)
      [] OTHER                  -> table

\* the table after the synchronous part of the operation
TableAfter(table, m) ==
    CASE m.operation = "write"  -> MapSet(table, m.path, WriteEntry(table, m))
      [] m.operation = "unlink" -> MapDelete(table, m.path)
      [] OTHER                  -> table

\* the durable-storage calls the operation issues: put(key, value) or delete(key)
StorageCalls(table, m) ==
    CASE m.operation = "write"  ->
            <<[call |-> "put", key |-> m.path, value |-> WritePutValue(table, m)]>>
      [] m.operation = "unlink" ->
            <<[call |-> "delete", key |-> m.path, value |-> <<>>]>>
      [] OTHER                  -> <<>>

\* the response of the operation, computed against the table it found
ResponseOf(table, m) ==
    CASE m.operation = "read"    -> ReadResponse(table, m)
      [] m.operation = "write"   -> WriteResponse(m)
      [] m.operation = "stat"    -> StatResponse(table, m)
      [] m.operation = "readdir" -> ReaddirResponse(table, m)
      [] m.operation = "unlink"  -> UnlinkResponse(table, m)
      [] OTHER                   -> UnknownResponse(m)

\* ctx.storage.put / ctx.storage.delete applied to the durable store; keys
\* carry the "fs:" prefix, which the store here leaves implicit
StorageApply(store, c) ==
    IF c.call = "put" THEN MapSet(store, c.key, c.value)
    ELSE MapDelete(store, c.key)

\* onStart, lines 249-253: every stored entry is set into the table
LoadFromStorage(table, store) ==
    [q \in (DOMAIN table) \cup (DOMAIN store) |->
        IF q \in DOMAIN store THEN store[q] ELSE table[q]]

(***************************************************************************)
(* Frame codec: a 4-byte little-endian length prefix, then the payload.    *)
(* A payload is the JSON text of one object; the model keeps what the      *)
(* framing depends on: a payload is a sequence of bytes of variable        *)
(* length, optional fields are left out, and a text cut short is not a     *)
(* valid object (the closing token is missing).                            *)
(***************************************************************************)
OpNames == <<"read", "write", "stat", "readdir", "unlink", "chmod">>
PathList == <<PathA, PathB>>

IndexOf(seq, x) == CHOOSE k \in 1..Len(seq) : seq[k] = x

\* the token of a member of the object: the index of its value, 0 when the
\* object has no such member
MemberToken(seq, x) ==
    IF \E k \in 1..Len(seq) : seq[k] = x THEN IndexOf(seq, x) ELSE 0

\* JSON.stringify of a request, as the client shim sends it; an object that
\* lacks id, operation or path is the text of an object all the same
SerializeRequest(m) ==
    <<IF m.id = Absent THEN 0 ELSE m.id,
      MemberToken(OpNames, m.operation), MemberToken(PathList, m.path)>>
    \o (IF m.offset = Absent THEN <<>> ELSE <<100 + m.offset>>)
    \o (IF m.size = Absent THEN <<>> ELSE <<150 + m.size>>)
    \o (IF m.data = <<>> THEN <<>> ELSE <<200>> \o m.data)
    \o <<255>>

\* JSON.parse(new TextDecoder().decode(messageBytes)) as FSMessage: the
\* object, or a SyntaxError when the bytes are not the text of one object.
\* The cast checks nothing: an object without id, operation or path parses,
\* and the member it lacks is undefined
ParseRequest(payload) ==
    LET n       == Len(payload)
        wellCut == /\ n >= 4
                   /\ payload[n] = 255
                   /\ payload[1] \in 0..99
                   /\ payload[2] \in 0..Len(OpNames)
                   /\ payload[3] \in 0..Len(PathList)
        rest    == SubSeq(payload, 4, n - 1)
        hasOff  == rest # <<>> /\ rest[1] \in 100..149
        rest2   == IF hasOff THEN Tail(rest) ELSE rest
        hasSize == rest2 # <<>> /\ rest2[1] \in 150..199
        rest3   == IF hasSize THEN Tail(rest2) ELSE rest2
        hasData == rest3 # <<>> /\ rest3[1] = 200
        data    == IF hasData THEN Tail(rest3) ELSE <<>>
        valid   == /\ wellCut
                   /\ (rest3 # <<>> => hasData /\ Len(rest3) >= 2)
                   /\ \A k \in 1..Len(data) : data[k] \in 0..99
    IN  IF valid
        THEN [ok |-> TRUE,
              message |->
                  FSMessage(IF payload[1] = 0 THEN Absent ELSE payload[1],
                            IF payload[2] = 0 THEN "undefined" ELSE OpNames[payload[2]],
                            IF payload[3] = 0 THEN Undefined ELSE PathList[payload[3]],
                            data,
                            IF hasOff THEN rest[1] - 100 ELSE Absent,
                            IF hasSize THEN rest2[1] - 150 ELSE Absent)]
        ELSE [ok |-> FALSE, message |-> NoMessage]

\* DataView.setUint32(0, n, true)
Uint32LE(n) ==
    <<n % 256, (n \div 256) % 256, (n \div 65536) % 256, (n \div 16777216) % 256>>

\* DataView.getUint32(0, true) on a buffer of at least four bytes
GetUint32LE(buf) == buf[1] + 256 * buf[2] + 65536 * buf[3] + 16777216 * buf[4]

\* a request frame as the client shim writes it to the stream
EncodeFrame(m) ==
    LET payload == SerializeRequest(m) IN Uint32LE(Len(payload)) \o payload

\* FrameComplete with the four bytes of the prefix left out of the count
FrameCompleteNoPrefix(buf) == Len(buf) >= GetUint32LE(buf)

\* buffer.length >= 4 + messageLength
FrameComplete(buf) == Len(buf) >= 4 + GetUint32LE(buf)

\* buffer.slice(4, 4 + messageLength)
MessageBytes(buf) == Slice(buf, 4, 4 + GetUint32LE(buf))

\* RemoveProcessed that leaves the processed message in the buffer
RemoveProcessedNothing(buf) == buf

\* buffer.slice(4 + messageLength)
RemoveProcessed(buf) == Slice(buf, 4 + GetUint32LE(buf), Len(buf))

\* AwaitsStorage of a loop that issues the storage call and goes on
AwaitsStorageNever(operation) == FALSE

\* whether the session loop waits for the storage call of an operation
\* before it builds the response (the await of lines 156 and 184)
AwaitsStorage(operation) == operation \in {"write", "unlink"}

(***************************************************************************)
(* State.                                                                  *)
(***************************************************************************)
VARIABLES
    fileSystemStorage,    \* per instance: the in-memory table, path -> bytes
    storage,              \* per instance: ctx.storage, the durable store
    containerConnections, \* the process-wide registry, in insertion order
    container,            \* per identity: "stopped", "starting" or "running"
    stream,               \* per connection: whom it was opened for, the bytes
                          \* in flight to the server, whether the peer closed
    session,              \* per connection: the handleFilesystemConnection
                          \* loop serving it (its position and its locals)
    written,              \* per connection: the response frames written
    sent,                 \* per connection: the requests the client sent
    decoded,              \* per connection: the requests the loop decoded
    last                  \* the operation performed last, when operations are
                          \* applied one at a time (SpecOp)

tableVars == <<fileSystemStorage, storage>>
routeVars == <<containerConnections, container>>
connVars  == <<stream, session, written, sent, decoded>>
vars == <<fileSystemStorage, storage, containerConnections, container,
          stream, session, written, sent, decoded, last>>

Conns == 1..MaxConns

\* owner: the instance whose loop it is; pc: "none" (no loop), "read" (at
\* reader.read), "parse" (in the inner loop), "respond" (an operation is
\* dispatched and its response not yet written), "closed"; pending: the
\* storage calls issued and not yet completed; error: what the catch block
\* caught; readerLocked, writerLocked: whether the loop holds the lock of the
\* reader and of the writer of its stream.  The last five fields record history: the requests whose storage
\* call has completed, those whose storage call was rejected, whether bytes
\* arrived since the last dispatch, whether
\* the request being answered was decoded from bytes that were all buffered
\* when the request before it was decoded, and with which parts of a frame
\* in the buffer ("prefix": 1 to 3 bytes, "payload": 4 or more) the loop
\* went back to reading.
NoSession ==
    [owner |-> "none", pc |-> "none", buffer |-> <<>>, message |-> NoMessage,
     response |-> NoResponse, pending |-> <<>>, error |-> "",
     readerLocked |-> FALSE, writerLocked |-> FALSE,
     persisted |-> {}, failed |-> {}, fresh |-> FALSE, sameRead |-> FALSE,
     resumed |-> {}]

\* conn.readable.getReader(), conn.writable.getWriter() and the empty
\* buffer: the loop of instance id as it reaches its first reader.read()
StartLoop(id) ==
    [NoSession EXCEPT !.owner = id, !.pc = "read",
                      !.readerLocked = TRUE, !.writerLocked = TRUE]

\* Finally that releases the lock of the reader only
FinallyReaderOnly(s, error) ==
    [s EXCEPT !.pc = "closed", !.error = error, !.readerLocked = FALSE]

\* the way out of the loop, by break or through the catch block: the finally
\* block releases both locks; error is what the catch block caught, "" after
\* the break
Finally(s, error) ==
    [s EXCEPT !.pc = "closed", !.error = error,
              !.readerLocked = FALSE, !.writerLocked = FALSE]

\* req, resp: the operation performed last and its response; existed:
\* whether its path had an entry before it; prior, priorResp: the operation
\* performed just before it, kept when the two form a write and the read of
\* what it wrote, or the same unlink twice
NoLast ==
    [req |-> NoMessage, resp |-> NoResponse, existed |-> FALSE,
     prior |-> NoMessage, priorResp |-> NoResponse]

Init ==
    /\ fileSystemStorage = [i \in Ids |-> EmptyMap]
    /\ storage = [i \in Ids |-> EmptyMap]
    /\ containerConnections = <<>>
    /\ container = [i \in Ids |-> "stopped"]
    /\ stream = [c \in Conns |-> [openedFor |-> "none", wire |-> <<>>, closed |-> FALSE]]
    /\ session = [c \in Conns |-> NoSession]
    /\ written = [c \in Conns |-> <<>>]
    /\ sent = [c \in Conns |-> <<>>]
    /\ decoded = [c \in Conns |-> <<>>]
    /\ last = NoLast

(***************************************************************************)
(* The router: app.get("/container/:id"), lines 292-310.                   *)
(***************************************************************************)
\* Map.prototype.set on the registry: a known key keeps its place
RegistrySet(reg, id, conn) ==
    IF \E k \in 1..Len(reg) : reg[k].id = id
    THEN [k \in 1..Len(reg) |->
             IF reg[k].id = id THEN [id |-> id, conn |-> conn] ELSE reg[k]]
    ELSE Append(reg, [id |-> id, conn |-> conn])

\* container.fetch(request): a stopped container is started, which runs onStart
Fetch(id) == [container EXCEPT ![id] = IF @ = "stopped" THEN "starting" ELSE @]

OpenedConns == {c \in Conns : stream[c].openedFor # "none"}

\* the connection opens: it is stored under the id, then the request is forwarded
Route(id) ==
    /\ Cardinality(OpenedConns) < MaxConns
    /\ LET conn == Cardinality(OpenedConns) + 1
       IN  /\ stream' = [stream EXCEPT ![conn].openedFor = id]
           /\ containerConnections' = RegistrySet(containerConnections, id, conn)
    /\ container' = Fetch(id)
    /\ UNCHANGED <<tableVars, session, written, sent, decoded, last>>

\* conn.opened rejects: the error is logged, the request is still forwarded
RouteWithoutConnection(id) ==
    /\ container[id] = "stopped"
    /\ container' = Fetch(id)
    /\ UNCHANGED <<tableVars, containerConnections, connVars, last>>

(***************************************************************************)
(* Lifecycle hooks of the instance: onStart, lines 246-265, and the        *)
(* container going to sleep (sleepAfter, onStop).                          *)
(***************************************************************************)
\* the registry entry onStart takes: the first of the iteration, whatever its id
PickConnection(reg, id) == reg[1]

OnStart(id) ==
    /\ container[id] = "starting"
    /\ container' = [container EXCEPT ![id] = "running"]
    /\ fileSystemStorage' =
          [fileSystemStorage EXCEPT ![id] = LoadFromStorage(@, storage[id])]
    /\ IF containerConnections = <<>>
       THEN UNCHANGED <<containerConnections, session>>
       ELSE LET entry == PickConnection(containerConnections, id)
            IN  /\ session' = [session EXCEPT ![entry.conn] = StartLoop(id)]
                /\ containerConnections' =
                      SelectSeq(containerConnections, LAMBDA e : e.id # entry.id)
    /\ UNCHANGED <<storage, stream, written, sent, decoded, last>>

OnStop(id) ==
    /\ container[id] = "running"
    /\ container' = [container EXCEPT ![id] = "stopped"]
    /\ UNCHANGED <<tableVars, containerConnections, connVars, last>>

(***************************************************************************)
(* The client shim at the other end of a connection.                       *)
(***************************************************************************)
\* the requests a client sends on a connection of the running system
ClientRequests ==
    {FSMessage(id, op, PathA, <<>>, Absent, Absent) :
        id \in RequestIds, op \in {"read", "stat", "unlink", "chmod"}}
    \cup {FSMessage(id, "write", PathA, <<1>>, offset, Absent) :
        id \in RequestIds, offset \in {Absent, 1}}

RECURSIVE SumLen(_, _)
SumLen(f, S) ==
    IF S = {} THEN 0
    ELSE LET c == CHOOSE x \in S : TRUE IN Len(f[c]) + SumLen(f, S \ {c})

SendFrame(c, m, budget) ==
    /\ stream[c].openedFor # "none"
    /\ ~stream[c].closed
    /\ SumLen(sent, Conns) < budget
    /\ stream' = [stream EXCEPT ![c].wire = @ \o EncodeFrame(m)]
    /\ sent' = [sent EXCEPT ![c] = Append(@, m)]
    /\ UNCHANGED <<tableVars, routeVars, session, written, decoded, last>>

CloseStream(c) ==
    /\ stream[c].openedFor # "none"
    /\ ~stream[c].closed
    /\ stream' = [stream EXCEPT ![c].closed = TRUE]
    /\ UNCHANGED <<tableVars, routeVars, session, written, sent, decoded, last>>

(***************************************************************************)
(* The session loop: handleFilesystemConnection, lines 192-241.            *)
(***************************************************************************)
\* reader.read() returns a chunk of k bytes, which is appended to the buffer
ReadChunk(c, k) ==
    /\ session[c].pc = "read"
    /\ k \in 1..Len(stream[c].wire)
    /\ session' = [session EXCEPT
                      ![c].buffer = @ \o SubSeq(stream[c].wire, 1, k),
                      ![c].pc = "parse",
                      ![c].fresh = TRUE]
    /\ stream' = [stream EXCEPT ![c].wire = SubSeq(@, k + 1, Len(@))]
    /\ UNCHANGED <<tableVars, routeVars, written, sent, decoded, last>>

\* reader.read() reports done: the loop ends and both locks are released
ReadDone(c) ==
    /\ session[c].pc = "read"
    /\ stream[c].wire = <<>>
    /\ stream[c].closed
    /\ session' = [session EXCEPT ![c] = Finally(@, "")]
    /\ UNCHANGED <<tableVars, routeVars, stream, written, sent, decoded, last>>

\* the storage calls of the request decoded k-th on its connection
TagCalls(calls, k) ==
    [j \in 1..Len(calls) |->
        [call |-> calls[j].call, key |-> calls[j].key, value |-> calls[j].value,
         request |-> k]]

\* one pass of the inner loop, up to the await of the operation: with a
\* complete frame in the buffer the payload is parsed and the operation runs
\* up to its storage call; a payload that does not parse throws, which ends
\* the loop; without a complete frame the loop goes back to reading
Decode(c) ==
    /\ session[c].pc = "parse"
    /\ LET s      == session[c]
           whole  == Len(s.buffer) >= 4 /\ FrameComplete(s.buffer)
           parsed == ParseRequest(MessageBytes(s.buffer))
           table  == fileSystemStorage[s.owner]
       IN  IF ~whole
           THEN /\ session' = [session EXCEPT
                      ![c].pc = "read",
                      ![c].resumed = @ \cup (IF s.buffer = <<>> THEN {}
                                             ELSE IF Len(s.buffer) < 4 THEN {"prefix"}
                                             ELSE {"payload"})]
                /\ UNCHANGED <<fileSystemStorage, decoded>>
           ELSE IF ~parsed.ok
           THEN /\ session' = [session EXCEPT ![c] = Finally(@, "decode")]
                /\ UNCHANGED <<fileSystemStorage, decoded>>
           ELSE /\ fileSystemStorage' =
                      [fileSystemStorage EXCEPT ![s.owner] = TableAfter(table, parsed.message)]
                /\ session' = [session EXCEPT
                      ![c].pc = "respond",
                      ![c].message = parsed.message,
                      ![c].response = ResponseOf(table, parsed.message),
                      ![c].pending = @ \o TagCalls(StorageCalls(table, parsed.message),
                                                   Len(decoded[c]) + 1),
                      ![c].fresh = FALSE,
                      ![c].sameRead = ~s.fresh]
                /\ decoded' = [decoded EXCEPT ![c] = Append(@, parsed.message)]
    /\ UNCHANGED <<storage, routeVars, stream, written, sent, last>>

\* the storage call issued first completes: the durable store changes
StorageDone(c) ==
    /\ session[c].pending # <<>>
    /\ storage' = [storage EXCEPT
                      ![session[c].owner] = StorageApply(@, Head(session[c].pending))]
    /\ session' = [session EXCEPT
                      ![c].pending = Tail(@),
                      ![c].persisted = @ \cup {Head(session[c].pending).request}]
    /\ UNCHANGED <<fileSystemStorage, routeVars, stream, written, sent, decoded, last>>

\* the storage call rejects: the store is unchanged; a loop that awaits the
\* call catches the error and ends
StorageFail(c) ==
    /\ session[c].pending # <<>>
    /\ LET s      == session[c]
           failed == [s EXCEPT !.pending = Tail(@),
                               !.failed = @ \cup {Head(s.pending).request}]
       IN  session' = [session EXCEPT ![c] =
              IF s.pc = "respond" /\ AwaitsStorage(s.message.operation)
              THEN Finally(failed, "storage") ELSE failed]
    /\ UNCHANGED <<tableVars, routeVars, stream, written, sent, decoded, last>>

\* the operation has returned: its response frame is written and the
\* processed message is removed from the buffer
Respond(c) ==
    /\ session[c].pc = "respond"
    /\ AwaitsStorage(session[c].message.operation) => session[c].pending = <<>>
    /\ written' = [written EXCEPT ![c] =
          Append(@, [response |-> session[c].response, request |-> Len(decoded[c])])]
    /\ session' = [session EXCEPT
                      ![c].buffer = RemoveProcessed(@),
                      ![c].pc = "parse"]
    /\ UNCHANGED <<tableVars, routeVars, stream, sent, decoded, last>>

Next ==
    \/ \E id \in Ids : Route(id)
    \/ \E id \in Ids : RouteWithoutConnection(id)
    \/ \E id \in Ids : OnStart(id)
    \/ \E id \in Ids : OnStop(id)
    \/ \E c \in Conns, m \in ClientRequests : SendFrame(c, m, MaxSystemFrames)
    \/ \E c \in Conns : CloseStream(c)
    \/ \E c \in Conns : \E k \in 1..Len(stream[c].wire) : ReadChunk(c, k)
    \/ \E c \in Conns : ReadDone(c)
    \/ \E c \in Conns : Decode(c)
    \/ \E c \in Conns : StorageDone(c)
    \/ \E c \in Conns : StorageFail(c)
    \/ \E c \in Conns : Respond(c)

\* the whole system: router, lifecycle, clients and session loops
Spec == Init /\ [][Next]_vars

(***************************************************************************)
(* One session: the state after GET /container/x opened connection 1 and   *)
(* onStart of x handed it to a session loop, and from there on only the    *)
(* client of that connection and its loop act.                             *)
(***************************************************************************)
InitSession ==
    /\ fileSystemStorage = [i \in Ids |-> EmptyMap]
    /\ storage = [i \in Ids |-> EmptyMap]
    /\ containerConnections = <<>>
    /\ container = [i \in Ids |-> IF i = "x" THEN "running" ELSE "stopped"]
    /\ stream = [c \in Conns |->
          [openedFor |-> IF c = 1 THEN "x" ELSE "none", wire |-> <<>>, closed |-> FALSE]]
    /\ session = [c \in Conns |->
          IF c = 1 THEN StartLoop("x") ELSE NoSession]
    /\ written = [c \in Conns |-> <<>>]
    /\ sent = [c \in Conns |-> <<>>]
    /\ decoded = [c \in Conns |-> <<>>]
    /\ last = NoLast

NextSession ==
    \/ \E m \in ClientRequests : SendFrame(1, m, MaxFrames)
    \/ CloseStream(1)
    \/ \E k \in 1..Len(stream[1].wire) : ReadChunk(1, k)
    \/ ReadDone(1)
    \/ Decode(1)
    \/ StorageDone(1)
    \/ StorageFail(1)
    \/ Respond(1)

SpecSession == InitSession /\ [][NextSession]_vars

(***************************************************************************)
(* One session whose peer does not keep to the protocol and whose stream   *)
(* may fail: besides requests the client sends objects that lack a member, *)
(* payloads that are not the text of an object, a frame cut short and a    *)
(* length prefix of 2^30; reader.read() and writer.write() may reject.     *)
(***************************************************************************)
WriteA == FSMessage(1, "write", PathA, <<1>>, Absent, Absent)
ReadA == FSMessage(2, "read", PathA, <<>>, Absent, Absent)

\* requests, and objects without id, without operation, without path
ProtocolRequests ==
    {WriteA, FSMessage(2, "read", PathA, <<>>, Absent, Absent),
     FSMessage(Absent, "write", PathA, <<1>>, Absent, Absent),
     FSMessage(1, "undefined", PathA, <<>>, Absent, Absent),
     FSMessage(1, "write", Undefined, <<1>>, Absent, Absent)}

\* the text of WriteA without its last byte, framed with the length it has
TruncatedFrame ==
    LET payload == SerializeRequest(WriteA)
    IN  Uint32LE(Len(payload) - 1) \o SubSeq(payload, 1, Len(payload) - 1)

\* one byte that is not the text of an object
InvalidJsonFrame == Uint32LE(1) \o <<254>>

\* the frame of WriteA without its last two bytes
IncompleteFrame == SubSeq(EncodeFrame(WriteA), 1, Len(EncodeFrame(WriteA)) - 2)

\* a length prefix that declares 2^30 bytes of payload
OversizedPrefix == <<0, 0, 0, 64>>

RawFrames == {TruncatedFrame, InvalidJsonFrame, IncompleteFrame, OversizedPrefix}

\* the client writes bytes that are not the frame of an object
SendBytes(c, bytes, budget) ==
    /\ stream[c].openedFor # "none"
    /\ ~stream[c].closed
    /\ SumLen(sent, Conns) < budget
    /\ stream' = [stream EXCEPT ![c].wire = @ \o bytes]
    /\ sent' = [sent EXCEPT ![c] = Append(@, NoMessage)]
    /\ UNCHANGED <<tableVars, routeVars, session, written, decoded, last>>

\* reader.read() rejects: the catch block logs, the finally block runs
ReadFail(c) ==
    /\ session[c].pc = "read"
    /\ session' = [session EXCEPT ![c] = Finally(@, "read")]
    /\ UNCHANGED <<tableVars, routeVars, stream, written, sent, decoded, last>>

\* writer.write(response) rejects: the catch block logs, the finally block runs
WriteFail(c) ==
    /\ session[c].pc = "respond"
    /\ AwaitsStorage(session[c].message.operation) => session[c].pending = <<>>
    /\ session' = [session EXCEPT ![c] = Finally(@, "write")]
    /\ UNCHANGED <<tableVars, routeVars, stream, written, sent, decoded, last>>

NextProtocol ==
    \/ \E m \in ProtocolRequests : SendFrame(1, m, MaxFrames)
    \/ \E bytes \in RawFrames : SendBytes(1, bytes, MaxFrames)
    \/ CloseStream(1)
    \/ \E k \in 1..Len(stream[1].wire) : ReadChunk(1, k)
    \/ ReadDone(1)
    \/ ReadFail(1)
    \/ Decode(1)
    \/ StorageDone(1)
    \/ StorageFail(1)
    \/ Respond(1)
    \/ WriteFail(1)

SpecProtocol == InitSession /\ [][NextProtocol]_vars

(***************************************************************************)
(* The ways out of the session loop: one session whose peer sends a write, *)
(* a payload that does not parse or a part of a frame and then ends the    *)
(* stream, where reader.read(), writer.write() and the storage call may    *)
(* reject.  The specification carries the scheduling of the runtime: a     *)
(* settled promise resumes the loop.  reader.read() settles once bytes are *)
(* in flight or the stream has ended, a storage call and writer.write()    *)
(* settle one way or the other, and the synchronous part of the inner loop *)
(* runs to its next await.                                                 *)
(***************************************************************************)
NextShutdown ==
    \/ SendFrame(1, WriteA, MaxFrames)
    \/ \E bytes \in {InvalidJsonFrame, IncompleteFrame} : SendBytes(1, bytes, MaxFrames)
    \/ CloseStream(1)
    \/ \E k \in 1..Len(stream[1].wire) : ReadChunk(1, k)
    \/ ReadDone(1)
    \/ ReadFail(1)
    \/ Decode(1)
    \/ StorageDone(1)
    \/ StorageFail(1)
    \/ Respond(1)
    \/ WriteFail(1)

SpecShutdown ==
    /\ InitSession
    /\ [][NextShutdown]_vars
    /\ WF_vars(\E k \in 1..Len(stream[1].wire) : ReadChunk(1, k))
    /\ WF_vars(ReadDone(1))
    /\ WF_vars(Decode(1))
    /\ WF_vars(StorageDone(1) \/ StorageFail(1))
    /\ WF_vars(Respond(1) \/ WriteFail(1))

(***************************************************************************)
(* One session served to its end: the client sends whole writes and reads  *)
(* of one path and may end the stream, a storage call may reject, and the  *)
(* runtime resumes the loop whenever the promise it awaits has settled.    *)
(***************************************************************************)
NextAnswer ==
    \/ \E m \in {WriteA, ReadA} : SendFrame(1, m, MaxFrames)
    \/ CloseStream(1)
    \/ \E k \in 1..Len(stream[1].wire) : ReadChunk(1, k)
    \/ ReadDone(1)
    \/ Decode(1)
    \/ StorageDone(1)
    \/ StorageFail(1)
    \/ Respond(1)

\* the next step of the loop of connection 1: the loop is one sequential
\* process, so at most one kind of step is possible at a time, and it stays
\* possible until it is taken
LoopStep ==
    \/ \E k \in 1..Len(stream[1].wire) : ReadChunk(1, k)
    \/ ReadDone(1)
    \/ Decode(1)
    \/ StorageDone(1)
    \/ StorageFail(1)
    \/ Respond(1)

SpecAnswer == InitSession /\ [][NextAnswer]_vars /\ WF_vars(LoopStep)

(***************************************************************************)
(* One identity over several activations: the route, onStart and the stop  *)
(* of the container of x, and the session loops of its connections, with   *)
(* whole writes and reads of one path.                                     *)
(***************************************************************************)
NextReactivation ==
    \/ Route("x")
    \/ OnStart("x")
    \/ OnStop("x")
    \/ \E c \in Conns, m \in {WriteA, ReadA} : SendFrame(c, m, MaxFrames)
    \/ \E c \in Conns : \E k \in 1..Len(stream[c].wire) : ReadChunk(c, k)
    \/ \E c \in Conns : Decode(c)
    \/ \E c \in Conns : StorageDone(c)
    \/ \E c \in Conns : StorageFail(c)
    \/ \E c \in Conns : Respond(c)

SpecReactivation == Init /\ [][NextReactivation]_vars

(***************************************************************************)
(* Operations applied one at a time to the table of instance x, each with  *)
(* its storage call completed, and the instance evicted and reactivated.   *)
(***************************************************************************)
OptOffsets == {Absent} \cup 0..MaxOffset
OptSizes == {Absent} \cup 0..MaxSize

\* every request on PathA within the bounds, and a few on PathB
OpRequests ==
    {FSMessage(1, "read", PathA, <<>>, offset, size) :
        offset \in OptOffsets, size \in OptSizes}
    \cup {FSMessage(1, "write", PathA, data, offset, Absent) :
        data \in SeqsUpTo(Bytes, MaxData), offset \in OptOffsets}
    \cup {FSMessage(1, op, p, <<>>, Absent, Absent) :
        p \in Paths, op \in {"read", "stat", "readdir", "unlink", "chmod"}}
    \cup {FSMessage(1, "write", PathB, <<1>>, Absent, Absent)}

RECURSIVE ApplyCalls(_, _)
ApplyCalls(store, calls) ==
    IF calls = <<>> THEN store
    ELSE ApplyCalls(StorageApply(store, Head(calls)), Tail(calls))

\* a write of the whole file (offset absent or 0)
IsWholeWrite(m) == m.operation = "write" /\ m.offset \in {Absent, 0}

\* a read of the first Len(data) bytes of the path that write w wrote
ReadsBack(m, w) ==
    /\ m.operation = "read"
    /\ m.path = w.path
    /\ m.offset \in {Absent, 0}
    /\ m.size = Len(w.data)

Paired(first, m) ==
    \/ IsWholeWrite(first) /\ ReadsBack(m, first)
    \/ first.operation = "unlink" /\ m = first

PerformFileSystemOperation(m) ==
    LET table == fileSystemStorage["x"]
    IN  /\ fileSystemStorage' = [fileSystemStorage EXCEPT !["x"] = TableAfter(table, m)]
        /\ storage' = [storage EXCEPT !["x"] = ApplyCalls(@, StorageCalls(table, m))]
        /\ last' = [req     |-> m,
                    resp    |-> ResponseOf(table, m),
                    existed |-> MapHas(table, m.path),
                    prior   |-> IF Paired(last.req, m) THEN last.req ELSE NoMessage,
                    priorResp |-> IF Paired(last.req, m) THEN last.resp ELSE NoResponse]
        /\ UNCHANGED <<routeVars, connVars>>

\* the instance is evicted (its memory is lost) and activated again
Restart ==
    /\ fileSystemStorage' =
          [fileSystemStorage EXCEPT !["x"] = LoadFromStorage(EmptyMap, storage["x"])]
    /\ last' = NoLast
    /\ UNCHANGED <<storage, routeVars, connVars>>

NextOp ==
    \/ \E m \in OpRequests : PerformFileSystemOperation(m)
    \/ Restart

SpecOp == Init /\ [][NextOp]_vars

(***************************************************************************)
(* Directory listings: writes, unlinks and readdirs applied one at a time  *)
(* to a table whose paths nest (SpecDir).  Paths are absolute, as the      *)
(* client shim sends them.                                                 *)
(***************************************************************************)
DirPaths ==
    {<<"/", "a">>, <<"/", "a", "b">>, <<"/", "a", "/", "x">>, <<"/", "a", "/", "y">>,
     <<"/", "a", "/", "x", "/", "z">>, <<"/", "b", "/", "x">>}

\* the paths given to readdir: the root, a directory with and without the
\* trailing slash, a file, a directory without entries, the empty string
DirPrefixes ==
    {<<"/">>, <<"/", "a">>, <<"/", "a", "/">>, <<"/", "a", "/", "x">>,
     <<"/", "b", "/">>, <<"/", "c", "/">>, <<>>}

DirRequests ==
    {FSMessage(1, "readdir", p, <<>>, Absent, Absent) : p \in DirPrefixes}
    \cup {FSMessage(1, "write", p, <<1>>, Absent, Absent) : p \in DirPaths}
    \cup {FSMessage(1, "unlink", p, <<>>, Absent, Absent) : p \in DirPaths}

NextDir == \E m \in DirRequests : PerformFileSystemOperation(m)

SpecDir == Init /\ [][NextDir]_vars

(***************************************************************************)
(* Properties of the operations (SpecOp).                                  *)
(***************************************************************************)
\* the table onStart builds in an instance whose memory was discarded
RebuiltTable == LoadFromStorage(EmptyMap, storage["x"])

\* C1: after every acknowledged write or unlink, the table rebuilt from the
\* durable store holds the same paths with the same bytes as the table in
\* memory
C1_Recovery == RebuiltTable = fileSystemStorage["x"]

\* C3: a write of data with offset absent or 0, followed at once by a read of
\* the same path at offset 0 with size Len(data), returns exactly data
C3_RoundTrip ==
    (IsWholeWrite(last.prior) /\ last.req.operation = "read") =>
        /\ last.resp.kind = "data"
        /\ last.resp.data = last.prior.data
        /\ last.resp.id = last.req.id

\* a two-byte write was read back, and so was an empty one
C3_Witness ==
    /\ IsWholeWrite(last.prior)
    /\ last.req.operation = "read"
    /\ last.prior.data = <<1, 0>>
    /\ last.resp.data = <<1, 0>>

\* the entry of path p in table t, empty when there is none
EntryOrEmpty(t, p) == IF MapHas(t, p) THEN t[p] ELSE <<>>

\* C9: a write of data at offset k > 0 to an entry of length n (0 when there
\* is none) leaves an entry of length max(n, k + Len(data)) that holds data
\* at [k, k + Len(data)), zero at [n, k), and the old bytes elsewhere
C9_OffsetWriteSplice ==
    [][LET m   == last'.req
           old == EntryOrEmpty(fileSystemStorage["x"], m.path)
           new == EntryOrEmpty(fileSystemStorage'["x"], m.path)
           k   == m.offset
           n   == Len(old)
       IN  (m.operation = "write" /\ k > 0) =>
              /\ MapHas(fileSystemStorage'["x"], m.path)
              /\ Len(new) = Max(n, k + Len(m.data))
              /\ \A j \in 1..Len(new) :
                    new[j] = IF j > k /\ j <= k + Len(m.data) THEN m.data[j - k]
                             ELSE IF j <= n THEN old[j]
                             ELSE 0
              /\ last'.resp.bytesWritten = Len(m.data)]_vars

\* one byte written at offset 2 of a path with no entry: a 3-byte entry whose
\* first two bytes are zero
C9_Witness ==
    /\ last.req.operation = "write"
    /\ last.req.offset = 2
    /\ last.req.data = <<1>>
    /\ ~last.existed
    /\ fileSystemStorage["x"][last.req.path] = <<0, 0, 1>>

\* C10: unlink returns success exactly when the path had an entry, afterwards
\* neither the table nor the durable store holds the path, and the same
\* unlink repeated after a successful one returns false
C10_Unlink ==
    last.req.operation = "unlink" =>
        /\ last.resp.kind = "success"
        /\ last.resp.success = last.existed
        /\ ~MapHas(fileSystemStorage["x"], last.req.path)
        /\ ~MapHas(storage["x"], last.req.path)
        /\ (last.prior = last.req /\ last.priorResp.success) => ~last.resp.success

\* an existing path was unlinked twice: true, then false
C10_Witness ==
    /\ last.req.operation = "unlink"
    /\ last.prior = last.req
    /\ last.priorResp.success
    /\ ~last.resp.success

\* the first path segment of key after its first n characters: the
\* characters from position n + 1 up to the next "/" or the end of the key
SegmentAfter(key, n) ==
    LET stop == CHOOSE k \in n..Len(key) :
                    /\ \A j \in (n + 1)..k : key[j] # "/"
                    /\ (k = Len(key) \/ key[k + 1] = "/")
    IN  SubSeq(key, n + 1, stop)

\* the child names of a directory prefix in a table: the non-empty first
\* segments after the prefix of the paths that start with it
ChildNames(table, prefix) ==
    {SegmentAfter(key, Len(prefix)) :
        key \in {q \in DOMAIN table : StartsWith(q, prefix)}} \ {<<>>}

\* C11: readdir(path) lists, each exactly once and none empty, the first
\* path segments after the prefix of the entries whose path starts with the
\* prefix, and nothing else; with entries /a/x, /a/y and /a/x/z,
\* readdir("/a/") lists exactly x and y
C11_Readdir ==
    last.req.operation = "readdir" =>
        LET files == last.resp.files
            table == fileSystemStorage["x"]
        IN  /\ last.resp.kind = "files"
            /\ last.resp.id = last.req.id
            /\ \A i, j \in 1..Len(files) : files[i] = files[j] => i = j
            /\ \A i \in 1..Len(files) : files[i] # <<>>
            /\ {files[i] : i \in 1..Len(files)} = ChildNames(table, last.req.path)
            /\ (/\ DOMAIN table = {<<"/", "a", "/", "x">>, <<"/", "a", "/", "y">>,
                                   <<"/", "a", "/", "x", "/", "z">>}
                /\ last.req.path = <<"/", "a", "/">>) =>
                    /\ Len(files) = 2
                    /\ {files[i] : i \in 1..Len(files)} = {<<"x">>, <<"y">>}

\* readdir("/a/") on the table that holds /a/x, /a/y and /a/x/z
C11_Witness ==
    /\ last.req.operation = "readdir"
    /\ last.req.path = <<"/", "a", "/">>
    /\ DOMAIN fileSystemStorage["x"] =
          {<<"/", "a", "/", "x">>, <<"/", "a", "/", "y">>, <<"/", "a", "/", "x", "/", "z">>}
    /\ Len(last.resp.files) = 2

\* the bytes of entry at positions [offset, min(offset + size, n)), an absent
\* offset being 0 and an absent size the length that remains after offset
ClippedSlice(entry, offset, size) ==
    LET n    == Len(entry)
        from == IF offset = Absent THEN 0 ELSE offset
        len  == IF size = Absent THEN Max(n - from, 0) ELSE size
    IN  IF from >= n THEN <<>> ELSE SubSeq(entry, from + 1, Min(from + len, n))

\* C17: a read of an existing entry returns exactly the bytes at positions
\* [offset, min(offset + size, n)); with size 0 it returns no bytes, and with
\* offset >= n it returns no bytes
C17_ReadSlice ==
    (last.req.operation = "read" /\ last.existed) =>
        /\ last.resp.kind = "data"
        /\ last.resp.data =
              ClippedSlice(fileSystemStorage["x"][last.req.path],
                           last.req.offset, last.req.size)

\* C18: read, stat, readdir and an operation without a case leave the table
\* and the durable store as they were, whether they return a result or an
\* error; the requested path has an entry afterwards only if it had one
C18_ReadOnlyOperations ==
    [][last'.req.operation \notin {"write", "unlink", "none"} =>
          /\ fileSystemStorage' = fileSystemStorage
          /\ storage' = storage
          /\ MapHas(fileSystemStorage'["x"], last'.req.path) = last'.existed]_vars

\* a read of a path without an entry returned its error next to an entry of
\* another path, and the path still has no entry
C18_Witness ==
    /\ last.req.operation = "read"
    /\ last.req.path = PathA
    /\ last.resp.error = "File not found"
    /\ DOMAIN fileSystemStorage["x"] = {PathB}
    /\ DOMAIN storage["x"] = {PathB}

(***************************************************************************)
(* Properties of one session (SpecSession).                                *)
(***************************************************************************)
\* a session loop is Connected from its start until it is closed
Connected(c) == session[c].pc \in {"read", "parse", "respond"}

\* C2: a response frame of a write or unlink (bytesWritten or success) is
\* written only after the storage call of that same request has completed
C2_WriteThenAcknowledge ==
    \A c \in Conns : \A k \in 1..Len(written[c]) :
        written[c][k].response.kind \in {"bytesWritten", "success"} =>
            written[c][k].request \in session[c].persisted

\* a write and an unlink were both acknowledged
C2_Witness ==
    /\ Len(written[1]) = 2
    /\ written[1][1].response.kind = "bytesWritten"
    /\ written[1][2].response.kind = "success"
    /\ written[1][2].response.success
    /\ session[1].persisted = {1, 2}

\* C4: the i-th response frame written on a connection carries the id of the
\* i-th request frame sent on it, however the bytes were split into reads
C4_FifoIdEcho ==
    \A c \in Conns :
        /\ Len(written[c]) <= Len(sent[c])
        /\ \A k \in 1..Len(written[c]) :
              /\ written[c][k].request = k
              /\ written[c][k].response.id = sent[c][k].id

\* two requests with ids 2 and 1, in that order, were both answered
C4_Witness ==
    /\ Len(written[1]) = 2
    /\ sent[1][1].id = 2
    /\ sent[1][2].id = 1
    /\ sent[1][1].operation = "chmod"

\* the table after the requests of a sequence, from an empty table
RECURSIVE ReplayTable(_)
ReplayTable(reqs) ==
    IF reqs = <<>> THEN EmptyMap
    ELSE TableAfter(ReplayTable(SubSeq(reqs, 1, Len(reqs) - 1)), reqs[Len(reqs)])

\* the response to the k-th request of a sequence applied to an empty table
ExpectedResponse(reqs, k) ==
    ResponseOf(ReplayTable(SubSeq(reqs, 1, k - 1)), reqs[k])

\* C5: while a request is dispatched, every request decoded before it on the
\* connection has had its table change made, its storage call completed and
\* its response written; and each response is the one the operation gives on
\* the table left by all requests decoded before it
C5_SequentialDispatch ==
    \A c \in Conns :
        LET s == session[c]
        IN  /\ s.pc = "respond" =>
                  /\ Len(written[c]) = Len(decoded[c]) - 1
                  /\ \A j \in 1..Len(s.pending) : s.pending[j].request = Len(decoded[c])
                  /\ s.persisted \subseteq 1..Len(decoded[c])
                  /\ s.response = ExpectedResponse(decoded[c], Len(decoded[c]))
            /\ s.pc \in {"read", "parse"} =>
                  /\ Len(written[c]) = Len(decoded[c])
                  /\ s.pending = <<>>
            /\ \A k \in 1..Len(written[c]) :
                  written[c][k].response = ExpectedResponse(decoded[c], k)

\* a write and a read of the same path arrived in one stream read, and the
\* read returned the written byte
C5_Witness ==
    /\ Len(written[1]) = 2
    /\ decoded[1][1].operation = "write"
    /\ decoded[1][1].offset = Absent
    /\ decoded[1][2].operation = "read"
    /\ session[1].sameRead
    /\ written[1][2].response.data = <<1>>

\* C8: whatever the byte boundaries of the reads, the requests decoded are
\* the requests sent, in order and without a decode error, no payload is
\* parsed before the whole frame is buffered, and the responses are those of
\* the sequence sent
C8_FrameReassembly ==
    \A c \in Conns :
        LET s == session[c]
        IN  /\ Len(decoded[c]) <= Len(sent[c])
            /\ \A k \in 1..Len(decoded[c]) : decoded[c][k] = sent[c][k]
            /\ s.error # "decode"
            /\ s.pc = "respond" =>
                  /\ Len(s.buffer) >= 4 + GetUint32LE(s.buffer)
                  /\ s.message = sent[c][Len(decoded[c])]
            /\ (s.pc = "read" /\ stream[c].wire = <<>>) =>
                  /\ decoded[c] = sent[c]
                  /\ s.buffer = <<>>
            /\ \A k \in 1..Len(written[c]) :
                  written[c][k].response = ExpectedResponse(sent[c], k)

\* two frames were answered after reads that ended inside a length prefix,
\* inside a payload, and one that held the end of a frame and the next frame
C8_Witness ==
    /\ Len(written[1]) = 2
    /\ session[1].resumed = {"prefix", "payload"}
    /\ session[1].sameRead
    /\ decoded[1] = sent[1]

\* C13: a request whose storage call (put of a write, delete of an unlink)
\* was rejected has no response frame carrying bytesWritten or success true
\* on the stream, at any time
C13_NoFalseAcknowledgement ==
    \A c \in Conns : \A k \in 1..Len(written[c]) :
        written[c][k].request \in session[c].failed =>
            LET r == written[c][k].response
            IN  ~(r.kind = "bytesWritten" \/ (r.kind = "success" /\ r.success))

\* a write was acknowledged, then the delete of an unlink of the same path
\* was rejected: one response frame, and the loop has ended
C13_Witness ==
    /\ session[1].failed = {2}
    /\ decoded[1][1].operation = "write"
    /\ decoded[1][2].operation = "unlink"
    /\ Len(written[1]) = 1
    /\ session[1].pc = "closed"

\* the operations the switch of performFileSystemOperation has a case for
KnownOperations == {"read", "write", "stat", "readdir", "unlink"}

\* C12: a stat or read of a path without an entry is answered with error
\* "File not found" and an operation without a case with error "Unknown
\* operation", each in a response frame that carries the request id; the
\* loop ends only at the end of the input or on a rejected storage call of a
\* write or unlink, never on such an error, and once it is back at the read
\* with no bytes in flight every request sent has been answered
C12_OperationErrors ==
    \A c \in Conns :
        LET s == session[c]
        IN  /\ \A k \in 1..Len(written[c]) :
                  LET m     == decoded[c][k]
                      table == ReplayTable(SubSeq(decoded[c], 1, k - 1))
                      r     == written[c][k].response
                  IN  /\ (m.operation \in {"read", "stat"} /\ ~MapHas(table, m.path)) =>
                            r.kind = "error" /\ r.error = "File not found" /\ r.id = m.id
                      /\ m.operation \notin KnownOperations =>
                            r.kind = "error" /\ r.error = "Unknown operation" /\ r.id = m.id
            /\ s.pc = "closed" =>
                  \/ s.error = "" /\ stream[c].closed /\ stream[c].wire = <<>>
                  \/ s.error = "storage" /\ s.message.operation \in {"write", "unlink"}
            /\ (s.pc = "read" /\ stream[c].wire = <<>>) => Len(written[c]) = Len(sent[c])

\* a read of a missing path and then an unknown operation were both answered
\* with their errors, and the loop is still running
C12_Witness ==
    /\ Len(written[1]) = 2
    /\ decoded[1][1].operation = "read"
    /\ written[1][1].response.error = "File not found"
    /\ written[1][2].response.error = "Unknown operation"
    /\ written[1][2].response.id = 2
    /\ Connected(1)

(***************************************************************************)
(* Properties of one session with protocol and stream errors               *)
(* (SpecProtocol, SpecShutdown).                                           *)
(***************************************************************************)
\* a request object that has its id, its operation and its path
WellFormedRequest(m) ==
    m.id # Absent /\ m.operation # "undefined" /\ m.path # Undefined

\* the members of a sequence that satisfy WellFormedRequest
WellFormedOnly(reqs) == SelectSeq(reqs, WellFormedRequest)

\* C14: a frame whose payload is cut short, is not the text of an object, or
\* is an object without id, operation or path ends the loop and changes
\* neither the table nor the store: no such object is dispatched or
\* answered, and the table is the one the well-formed requests leave
C14_ProtocolErrorsConfined ==
    \A c \in Conns :
        LET s == session[c]
        IN  /\ s.pc = "respond" => WellFormedRequest(s.message)
            /\ \A k \in 1..Len(written[c]) : WellFormedRequest(decoded[c][written[c][k].request])
            /\ \A j \in 1..Len(s.pending) : WellFormedRequest(decoded[c][s.pending[j].request])
            /\ s.owner # "none" =>
                  fileSystemStorage[s.owner] = ReplayTable(WellFormedOnly(decoded[c]))

\* the longest payload of a request of the protocol
LongestPayload ==
    LET lengths == {Len(SerializeRequest(m)) : m \in ProtocolRequests \cup ClientRequests}
    IN  CHOOSE n \in lengths : \A k \in lengths : k <= n

\* C15: a loop that has found at the head of its buffer a length prefix
\* larger than any payload of the protocol is Closed: it is not back at the
\* read, waiting for that many bytes
C15_OversizedPrefixFatal ==
    \A c \in Conns :
        LET s == session[c]
        IN  (Len(s.buffer) >= 4 /\ GetUint32LE(s.buffer) > LongestPayload) =>
                s.pc \in {"parse", "closed"}

\* a loop holds both locks while it runs and neither once it is Closed, and
\* what the catch block caught is recorded only in a Closed loop
LocksFollowLoop ==
    \A c \in Conns :
        LET s == session[c]
        IN  /\ Connected(c) => s.readerLocked /\ s.writerLocked /\ s.error = ""
            /\ s.pc = "closed" => ~s.readerLocked /\ ~s.writerLocked
            /\ s.pc = "closed" => s.pending = <<>>

\* a Closed loop does nothing more: it decodes and answers no request, and
\* neither the table nor the durable store changes
ClosedIsTerminal ==
    \A c \in Conns :
        session[c].pc = "closed" =>
            /\ session'[c] = session[c]
            /\ decoded'[c] = decoded[c]
            /\ written'[c] = written[c]
            /\ fileSystemStorage' = fileSystemStorage
            /\ storage' = storage

\* C20: when reader.read() reports the end of the input, or reader.read(),
\* writer.write(), the parse of a payload or a storage call throws, the loop
\* is Closed with the lock of the reader and the lock of the writer released;
\* from then on it dispatches nothing, whatever its buffer holds; and a loop
\* whose stream has ended reaches Closed
C20_SessionShutdown ==
    /\ []LocksFollowLoop
    /\ [][ClosedIsTerminal]_vars
    /\ stream[1].closed ~> session[1].pc = "closed"

\* the input ended with an incomplete frame in the buffer: the loop is
\* Closed, both locks are released, the table and the store are empty
C20_Witness ==
    /\ session[1].pc = "closed"
    /\ session[1].error = ""
    /\ session[1].buffer = IncompleteFrame
    /\ ~session[1].readerLocked
    /\ ~session[1].writerLocked
    /\ decoded[1] = <<>>
    /\ fileSystemStorage["x"] = EmptyMap
    /\ storage["x"] = EmptyMap

(***************************************************************************)
(* Properties of one session served to its end (SpecAnswer).               *)
(***************************************************************************)
\* the k-th response frame written answers the k-th request decoded, which
\* is the k-th request sent: no request has two response frames and no
\* response frame is without a decoded request
OneResponseEach ==
    \A c \in Conns :
        /\ Len(written[c]) <= Len(decoded[c])
        /\ Len(decoded[c]) <= Len(written[c]) + 1
        /\ Len(decoded[c]) <= Len(sent[c])
        /\ \A k \in 1..Len(written[c]) :
              /\ written[c][k].request = k
              /\ decoded[c][k] = sent[c][k]
              /\ written[c][k].response.id = sent[c][k].id

\* the stream of connection 1 has not ended and no storage call was rejected
StaysServed == ~stream[1].closed /\ session[1].failed = {}

\* C21: every response frame answers one decoded request and no request has
\* two; and while the stream stays open and the storage calls succeed, each
\* request frame sent on the stream is eventually answered.  A frame sent
\* stays sent and a response written stays written, so that the k-th frame,
\* once sent, is eventually answered is to say that again and again it is
\* not yet sent, or answered, or the stream has ended or a call was rejected
C21_OneResponseEventually ==
    /\ []OneResponseEach
    /\ \A k \in 1..MaxFrames :
          []<>(Len(sent[1]) < k \/ Len(written[1]) >= k \/ ~StaysServed)

\* two requests were sent in one piece and each has its response frame, on a
\* stream that is open and with every storage call completed
C21_Witness ==
    /\ StaysServed
    /\ Connected(1)
    /\ Len(sent[1]) = 2
    /\ Len(written[1]) = 2
    /\ session[1].sameRead
    /\ written[1][1].response.kind = "bytesWritten"
    /\ written[1][2].response.data = <<1>>

(***************************************************************************)
(* Properties of the whole system (Spec).                                  *)
(***************************************************************************)
\* C6: at most one session loop of an identity is Connected at a time
C6_SingleSession ==
    \A id \in Ids :
        Cardinality({c \in Conns : session[c].owner = id /\ Connected(c)}) <= 1

\* C7: a stream opened for an identity is served by the loop of that identity
\* only, so the table of an instance holds nothing but what requests on the
\* streams opened for its identity wrote
C7_IdentityIsolation ==
    \A id \in Ids :
        fileSystemStorage[id] # EmptyMap =>
            \E c \in Conns :
                /\ stream[c].openedFor = id
                /\ \E k \in 1..Len(sent[c]) : sent[c][k].operation = "write"
\* C16: every run of onStart leaves the table of the instance holding exactly
\* the entries of its durable store, before any loop started by that run
\* dispatches a request
C16_RecoveryBeforeService ==
    [][\A id \in Ids :
          (container[id] = "starting" /\ container'[id] = "running") =>
              fileSystemStorage'[id] = LoadFromStorage(EmptyMap, storage[id])]_vars
(***************************************************************************)
(* Properties over several activations of one identity (SpecReactivation). *)
(***************************************************************************)
\* the paths of the requests of instance id whose storage call was rejected
FailedPaths(id) ==
    UNION {{decoded[c][k].path : k \in session[c].failed} :
              c \in {d \in Conns : session[d].owner = id}}

\* C19: a read dispatched after the storage call of a write or unlink of its
\* path was rejected returns what the durable store holds for the path: the
\* change that was not persisted is not visible to it
C19_AtomicPersistence ==
    [][\A c \in Conns :
          Len(decoded'[c]) > Len(decoded[c]) =>
              LET m  == decoded'[c][Len(decoded'[c])]
                  id == session[c].owner
              IN  (m.operation = "read" /\ m.path \in FailedPaths(id)) =>
                      session'[c].response = ReadResponse(storage[id], m)]_vars
====
